---------------------------- MODULE Spec2Model ----------------------------
(***************************************************************************)
(* Model of examples/research_projects/codeparrot/scripts/preprocessing.py *)
(*                                                                         *)
(* The script is a straight-line pipeline run at module scope:             *)
(*   map(preprocess) on N_CPUS workers -> hash export -> uniques = set of  *)
(*   hashes -> sequential filter pass -> shard loop (to_json, gzip,        *)
(*   unlink).                                                              *)
(*                                                                         *)
(* Text is modelled as a tuple of one-character strings.  Floating point   *)
(* means (np.mean) are kept as exact fractions [num, den]; the thresholds  *)
(* they are compared with (100 and 0.25) are exactly representable, and    *)
(* for the operand sizes here the correctly rounded quotient compares with *)
(* them as the exact fraction does.  np.mean of an empty list is nan,      *)
(* kept as [num |-> 0, den |-> 0], for which every comparison is false.    *)
(***************************************************************************)
EXTENDS Integers, Sequences, FiniteSets, TLC

\* ------------------------------------------------------------------ bounds

\* Longest dataset the model loads.
MaxRecords == 3

\* Largest shard size (samples_per_file) the model configures.
MaxSamplesPerFile == 2

\* Width, in bits, of the stand-in for Python's 64-bit hash value.
HashBits == 6

\* ------------------------------------------------------- program constants

\* N_CPUS = multiprocessing.cpu_count(): the machine of the model has 2.
N_CPUS == 2

\* Thresholds of filter().
MaxLineMax == 1000
MaxLineMean == 100
MinAlphaFrac == [num |-> 1, den |-> 4]

\* scan_width of is_autogenerated().
scan_width == 5

\* Width of the shard number in a shard file name ({file_number+1:012}).
NameWidth == 12

\* ------------------------------------------------------------------- text

UpperCase == <<"A","B","C","D","E","F","G","H","I","J","K","L","M",
               "N","O","P","Q","R","S","T","U","V","W","X","Y","Z">>
LowerCase == <<"a","b","c","d","e","f","g","h","i","j","k","l","m",
               "n","o","p","q","r","s","t","u","v","w","x","y","z">>
DigitChar == <<"0","1","2","3","4","5","6","7","8","9">>
OtherChar == <<" ", "-", "\n", "\r">>

Range(f) == {f[k] : k \in DOMAIN f}

\* str.lower() on one character.
lower(ch) ==
  IF ch \in Range(UpperCase)
    THEN LowerCase[CHOOSE k \in DOMAIN UpperCase : UpperCase[k] = ch]
    ELSE ch

\* str.isalnum() on one character.
isalnum(ch) == ch \in Range(UpperCase) \cup Range(LowerCase) \cup Range(DigitChar)

\* The code point order of the characters of the model (used by the hash).
CharTable == DigitChar \o UpperCase \o LowerCase \o OtherChar
Ord(ch) == CHOOSE k \in DOMAIN CharTable : CharTable[k] = ch

\* str.splitlines(): the lines of s without their line boundaries; a final
\* boundary opens no further line, and "\r\n" is one boundary.
RECURSIVE SplitFrom(_, _, _, _)
SplitFrom(s, k, cur, acc) ==
  IF k > Len(s) THEN (IF cur = <<>> THEN acc ELSE Append(acc, cur))
  ELSE IF s[k] = "\r" /\ k < Len(s) /\ s[k + 1] = "\n"
    THEN SplitFrom(s, k + 2, <<>>, Append(acc, cur))
  ELSE IF s[k] \in {"\n", "\r"}
    THEN SplitFrom(s, k + 1, <<>>, Append(acc, cur))
  ELSE SplitFrom(s, k + 1, Append(cur, s[k]), acc)

splitlines(s) == SplitFrom(s, 1, <<>>, <<>>)

\* `needle in hay` for strings.
Contains(hay, needle) ==
  \E k \in 0..(Len(hay) - Len(needle)) :
    \A j \in 1..Len(needle) : hay[k + j] = needle[j]

RECURSIVE SumSeq(_)
SumSeq(q) == IF q = <<>> THEN 0 ELSE Head(q) + SumSeq(Tail(q))

RECURSIVE MaxSeq(_)
MaxSeq(q) == IF Len(q) = 1 THEN q[1]
             ELSE LET m == MaxSeq(Tail(q)) IN IF q[1] > m THEN q[1] ELSE m

RECURSIVE Pow2(_)
Pow2(n) == IF n = 0 THEN 1 ELSE 2 * Pow2(n - 1)

\* ------------------------------------------------------- the pure functions

\* An exception raised by a function, in place of its result.
Raise(name) == [exc |-> name]
Raised(r) == "exc" \in DOMAIN r

\* Python's hash(str): a keyed hash of the characters, the key being the
\* interpreter's hash secret (PYTHONHASHSEED).  The stand-in is a keyed
\* polynomial hash of HashBits bits, read as a signed integer.
RECURSIVE PolyHash(_, _)
PolyHash(h, s) ==
  IF s = <<>> THEN h
  ELSE PolyHash((h * 31 + Ord(Head(s))) % Pow2(HashBits), Tail(s))

hash(seed, s) ==
  LET h == PolyHash((seed * 17 + Len(s)) % Pow2(HashBits), s)
  IN  IF h >= Pow2(HashBits - 1) THEN h - Pow2(HashBits) ELSE h

get_hash(seed, example) == [hash |-> hash(seed, example.content)]

line_lengths(example) ==
  LET lines == splitlines(example.content)
  IN  [k \in 1..Len(lines) |-> Len(lines[k])]

\* np.mean of an empty list is nan (with a warning); max of an empty list
\* raises ValueError.
line_stats(example) ==
  LET ll == line_lengths(example)
  IN  IF ll = <<>> THEN Raise("ValueError")
      ELSE [line_mean |-> [num |-> SumSeq(ll), den |-> Len(ll)],
            line_max |-> MaxSeq(ll)]

alpha_stats(example) ==
  LET c == example.content
  IN  [alpha_frac |-> [num |-> Cardinality({k \in 1..Len(c) : isalnum(c[k])}),
                       den |-> Len(c)]]

keywords ==
  << <<"a","u","t","o","-","g","e","n","e","r","a","t","e","d">>,
     <<"a","u","t","o","g","e","n","e","r","a","t","e","d">>,
     <<"a","u","t","o","m","a","t","i","c","a","l","l","y"," ",
       "g","e","n","e","r","a","t","e","d">> >>

Min(a, b) == IF a < b THEN a ELSE b

\* is_autogenerated without the zip with range(scan_width): every line is
\* scanned.
is_autogenerated_all_lines(example) ==
  LET lines == splitlines(example.content)
  IN  [autogenerated |->
         \E n \in 1..Len(lines) : \E k \in DOMAIN keywords :
            Contains([j \in 1..Len(lines[n]) |-> lower(lines[n][j])], keywords[k])]

is_autogenerated(example) ==
  LET lines == splitlines(example.content)
      scanned == 1..Min(scan_width, Len(lines))
  IN  [autogenerated |->
         \E n \in scanned : \E k \in DOMAIN keywords :
            Contains([j \in 1..Len(lines[n]) |-> lower(lines[n][j])], keywords[k])]

\* results.update(...) of the four steps, in the order of the code: an
\* exception of a step ends the function.
preprocess(seed, example) ==
  LET ls == line_stats(example)
  IN  IF Raised(ls) THEN ls
      ELSE [hash |-> get_hash(seed, example).hash,
            line_mean |-> ls.line_mean,
            line_max |-> ls.line_max,
            alpha_frac |-> alpha_stats(example).alpha_frac,
            autogenerated |-> is_autogenerated(example).autogenerated]

\* Comparisons of a mean [num, den] with an integer or a fraction.
MeanGt(m, n) == m.den > 0 /\ m.num > n * m.den
MeanLt(m, f) == m.den > 0 /\ m.num * f.den < f.num * m.den

\* check_uniques that empties the set (uniques.clear()) on a hit.
check_uniques_clears(example, uniques_) ==
  IF example.hash \in uniques_
    THEN [ret |-> TRUE, uniques |-> {}]
    ELSE [ret |-> FALSE, uniques |-> uniques_]

\* check_uniques without its uniques.remove(...).
check_uniques_keeps(example, uniques_) ==
  [ret |-> example.hash \in uniques_, uniques |-> uniques_]

\* A function that mutates its argument returns the result and the argument.
check_uniques(example, uniques_) ==
  IF example.hash \in uniques_
    THEN [ret |-> TRUE, uniques |-> uniques_ \ {example.hash}]
    ELSE [ret |-> FALSE, uniques |-> uniques_]

\* filter with the heuristics tested before check_uniques, so that a record
\* the heuristics reject leaves its hash in the set.
filter_dedup_last(example, uniques_) ==
  IF \/ example.autogenerated
     \/ example.line_max > MaxLineMax
     \/ MeanGt(example.line_mean, MaxLineMean)
     \/ MeanLt(example.alpha_frac, MinAlphaFrac)
    THEN [uniques |-> uniques_, ret |-> FALSE]
    ELSE check_uniques(example, uniques_)

\* filter with >= in place of > in the line_max test.
filter_strict(example, uniques_) ==
  LET cu == check_uniques(example, uniques_)
  IN  [uniques |-> cu.uniques,
       ret |-> IF ~cu.ret THEN FALSE
               ELSE IF example.autogenerated THEN FALSE
               ELSE IF example.line_max >= MaxLineMax THEN FALSE
               ELSE IF MeanGt(example.line_mean, MaxLineMean) THEN FALSE
               ELSE IF MeanLt(example.alpha_frac, MinAlphaFrac) THEN FALSE
               ELSE TRUE]

filter(example, uniques_) ==
  LET cu == check_uniques(example, uniques_)
  IN  [uniques |-> cu.uniques,
       ret |-> IF ~cu.ret THEN FALSE
               ELSE IF example.autogenerated THEN FALSE
               ELSE IF example.line_max > MaxLineMax THEN FALSE
               ELSE IF MeanGt(example.line_mean, MaxLineMean) THEN FALSE
               ELSE IF MeanLt(example.alpha_frac, MinAlphaFrac) THEN FALSE
               ELSE TRUE]

\* ------------------------------------------------------------------ inputs

\* The contents a record of the loaded dataset can have:
\*   "a\nb", "b", "c d"           pass every heuristic
\*   "AUTO-GENERATED FILE\nx"     is autogenerated
\*   ""                           has no line
Contents ==
  { <<"a", "\n", "b">>,
    <<"b">>,
    <<"c", " ", "d">>,
    <<"A","U","T","O","-","G","E","N","E","R","A","T","E","D"," ",
      "F","I","L","E","\n","x">>,
    <<>> }

Workers == 0..(N_CPUS - 1)

\* The hash secrets of the map workers.  A forked worker inherits the secret
\* of the parent interpreter, so all workers hash alike; a spawned worker is a
\* new interpreter that draws a secret of its own, here the worker's rank.
HashSeeds == {[w \in Workers |-> 0], [w \in Workers |-> w]}

\* ------------------------------------------------------------------- state

VARIABLES
  pc,               \* the statement the script is at
  error,            \* the exception that ended the run, or "none"
  samples_per_file, \* the shard size setting
  hashseed,         \* hashseed[w]: the hash secret of map worker w
  ds,               \* the dataset: loaded, then with the attributes attached
  results,          \* results[w]: the examples worker w has processed so far
  hash_file,        \* the lines of hash_dir/data_hash.json
  exports,          \* how many times the hash export was written
  uniques,          \* the set of hashes not yet consumed
  visited,          \* how many records the filter pass has visited
  checked,          \* checked[k]: what check_uniques returned for record k
  kept,             \* kept[k]: what filter returned for record k
  ds_filter,        \* the filtered dataset
  yielded,          \* how many items the shard loop's iterator has yielded
  file_number,      \* loop variables of the shard loop
  index,
  fs                \* the files of output_dir, by path

vars == <<pc, error, samples_per_file, hashseed, ds, results, hash_file, exports,
          uniques, visited, checked, kept, ds_filter, yielded, file_number,
          index, fs>>

\* All sequences over S of length at most n.
SeqsUpTo(S, n) == UNION {[1..k -> S] : k \in 0..n}

Init ==
  /\ pc = "map"
  /\ error = "none"
  /\ samples_per_file \in (0 - 1)..MaxSamplesPerFile
  /\ hashseed \in HashSeeds
  /\ ds \in {[k \in DOMAIN cs |-> [content |-> cs[k]]] :
               cs \in SeqsUpTo(Contents, MaxRecords)}
  /\ results = [w \in Workers |-> <<>>]
  /\ hash_file = <<>>
  /\ exports = 0
  /\ uniques = {}
  /\ visited = 0
  /\ checked = <<>>
  /\ kept = <<>>
  /\ ds_filter = <<>>
  /\ yielded = 0
  /\ file_number = 0
  /\ index = 0
  /\ fs = [q \in {} |-> <<>>]

\* ------------------------------------------------ ds.map(preprocess, N_CPUS)

\* The contiguous slice of the dataset that worker `rank` maps: records
\* ShardStart(rank)+1 .. ShardStart(rank)+ShardLen(rank).
ShardLen(rank) ==
  (Len(ds) \div N_CPUS) + (IF rank < Len(ds) % N_CPUS THEN 1 ELSE 0)
ShardStart(rank) ==
  (Len(ds) \div N_CPUS) * rank + Min(rank, Len(ds) % N_CPUS)

\* The run ends with an exception.
Fail(name) == pc' = "failed" /\ error' = name

\* Worker w maps its next example: the example with the results of preprocess.
MapStep(w) ==
  /\ pc = "map"
  /\ Len(results[w]) < ShardLen(w)
  /\ LET example == ds[ShardStart(w) + Len(results[w]) + 1]
         r == preprocess(hashseed[w], example)
     IN  IF Raised(r)
           THEN /\ Fail(r.exc)
                /\ UNCHANGED results
           ELSE /\ results' = [results EXCEPT ![w] =
                     Append(@, [content |-> example.content] @@ r)]
                /\ UNCHANGED <<pc, error>>
  /\ UNCHANGED <<samples_per_file, hashseed, ds, hash_file, exports, uniques,
                 visited, checked, kept, ds_filter, yielded, file_number, index,
                 fs>>

\* A join that takes the shards from the last rank to the first.
RECURSIVE ConcatShards_reversed(_, _)
ConcatShards_reversed(res, w) ==
  IF w = N_CPUS THEN <<>> ELSE ConcatShards_reversed(res, w + 1) \o res[w]

RECURSIVE ConcatShards(_, _)
ConcatShards(res, w) ==
  IF w = N_CPUS THEN <<>> ELSE res[w] \o ConcatShards(res, w + 1)

\* All workers are done: the mapped shards are concatenated in rank order.
MapJoin ==
  /\ pc = "map"
  /\ \A w \in Workers : Len(results[w]) = ShardLen(w)
  /\ ds' = ConcatShards(results, 0)
  /\ pc' = "export"
  /\ UNCHANGED <<error, samples_per_file, hashseed, results, hash_file, exports,
                 uniques, visited, checked, kept, ds_filter, yielded,
                 file_number, index, fs>>

\* ------------------------------------------------------- the hash export

\* remove_columns(["content"]) on one example.
remove_columns(example) == [f \in (DOMAIN example) \ {"content"} |-> example[f]]

\* The lines of a sequence of examples, one line per distinct hash.
RECURSIVE DistinctHashes(_)
DistinctHashes(q) ==
  IF q = <<>> THEN <<>>
  ELSE LET rest == DistinctHashes(SubSeq(q, 1, Len(q) - 1))
           last == q[Len(q)]
       IN  IF \E k \in DOMAIN rest : rest[k].hash = last.hash
             THEN rest ELSE Append(rest, last)

\* A hash export of the distinct hashes only.
HashExport_distinct ==
  /\ pc = "export"
  /\ hash_file' = DistinctHashes([k \in DOMAIN ds |-> remove_columns(ds[k])])
  /\ exports' = exports + 1
  /\ pc' = "uniques"
  /\ UNCHANGED <<error, samples_per_file, hashseed, ds, results, uniques,
                 visited, checked, kept, ds_filter, yielded, file_number, index,
                 fs>>

\* ds.remove_columns(["content"]).to_json(hash_dir + "/data_hash.json")
HashExport ==
  /\ pc = "export"
  /\ hash_file' = [k \in DOMAIN ds |-> remove_columns(ds[k])]
  /\ exports' = exports + 1
  /\ pc' = "uniques"
  /\ UNCHANGED <<error, samples_per_file, hashseed, ds, results, uniques,
                 visited, checked, kept, ds_filter, yielded, file_number, index,
                 fs>>

\* ------------------------------------------------------ dedup and filter

\* uniques = set(ds.unique("hash")); frac = len(uniques) / len(ds)
Deduplicate ==
  /\ pc = "uniques"
  /\ uniques' = {ds[k].hash : k \in DOMAIN ds}
  /\ IF Len(ds) = 0
       THEN Fail("ZeroDivisionError")
       ELSE pc' = "filter" /\ UNCHANGED error
  /\ UNCHANGED <<samples_per_file, hashseed, ds, results, hash_file, exports,
                 visited, checked, kept, ds_filter, yielded, file_number, index,
                 fs>>

\* A filter pass that visits the records from the last to the first.
FilterStep_reversed ==
  /\ pc = "filter"
  /\ visited < Len(ds)
  /\ LET example == ds[Len(ds) - visited]
         r == filter(example, uniques)
     IN  /\ uniques' = r.uniques
         /\ checked' = <<check_uniques(example, uniques).ret>> \o checked
         /\ kept' = <<r.ret>> \o kept
         /\ ds_filter' = IF r.ret THEN <<example>> \o ds_filter ELSE ds_filter
  /\ visited' = visited + 1
  /\ UNCHANGED <<pc, error, samples_per_file, hashseed, ds, results, hash_file,
                 exports, yielded, file_number, index, fs>>

\* A filter pass in which every call of filter gets a copy of uniques.
FilterStep_copies ==
  /\ pc = "filter"
  /\ visited < Len(ds)
  /\ LET example == ds[visited + 1]
         r == filter(example, uniques)
     IN  /\ uniques' = uniques
         /\ checked' = Append(checked, check_uniques(example, uniques).ret)
         /\ kept' = Append(kept, r.ret)
         /\ ds_filter' = IF r.ret THEN Append(ds_filter, example) ELSE ds_filter
  /\ visited' = visited + 1
  /\ UNCHANGED <<pc, error, samples_per_file, hashseed, ds, results, hash_file,
                 exports, yielded, file_number, index, fs>>

\* ds.filter(filter, fn_kwargs={"uniques": uniques}) visits the records in
\* dataset order, one call of filter per record.
FilterStep ==
  /\ pc = "filter"
  /\ visited < Len(ds)
  /\ LET example == ds[visited + 1]
         r == filter(example, uniques)
     IN  /\ uniques' = r.uniques
         /\ checked' = Append(checked, check_uniques(example, uniques).ret)
         /\ kept' = Append(kept, r.ret)
         /\ ds_filter' = IF r.ret THEN Append(ds_filter, example) ELSE ds_filter
  /\ visited' = visited + 1
  /\ UNCHANGED <<pc, error, samples_per_file, hashseed, ds, results, hash_file,
                 exports, yielded, file_number, index, fs>>

FilterEnd ==
  /\ pc = "filter"
  /\ visited = Len(ds)
  /\ pc' = "save"
  /\ UNCHANGED <<error, samples_per_file, hashseed, ds, results, hash_file,
                 exports, uniques, visited, checked, kept, ds_filter, yielded,
                 file_number, index, fs>>

\* --------------------------------------------------------- the shard loop

RECURSIVE Digits(_)
Digits(n) == IF n < 10 THEN <<DigitChar[n + 1]>>
             ELSE Append(Digits(n \div 10), DigitChar[(n % 10) + 1])

\* f"{n:012}": the decimal digits of n, padded with zeros to NameWidth.
Format012(n) ==
  LET d == Digits(n)
  IN  [k \in 1..(NameWidth - Len(d)) |-> "0"] \o d

\* Shard names numbered from 0: f"{output_dir}/file-{file_number:012}.json"
file_path_from_zero(n) ==
  <<"codeparrot-clean/file-">> \o Format012(n) \o <<".json">>

\* f"{output_dir}/file-{file_number+1:012}.json"
file_path(n) == <<"codeparrot-clean/file-">> \o Format012(n + 1) \o <<".json">>
gz_path(path) == path \o <<".gz">>

\* The file system with file v at path p, and without the file at path p.
Put(f, p, v) == [q \in (DOMAIN f) \cup {p} |-> IF q = p THEN v ELSE f[q]]
Remove(f, p) == [q \in (DOMAIN f) \ {p} |-> f[q]]

\* A file: the lines written to it, and whether it was written to its end
\* and closed.  A gzip file is kept by the lines its stream holds; it is
\* complete when its trailer is written.
File(lines, complete) == [data |-> lines, complete |-> complete]

end_index == Min(Len(ds_filter), index + samples_per_file)

\* select that starts one record late.
select_skips == SubSeq(ds_filter, index + 2, end_index)

\* ds_filter.select(list(range(index, end_index)))
select == SubSeq(ds_filter, index + 1, end_index)

\* The for statement is reached: range(0, len(ds_filter), samples_per_file)
\* raises ValueError for a step of 0.
SaveStart ==
  /\ pc = "save"
  /\ IF samples_per_file = 0
       THEN Fail("ValueError")
       ELSE pc' = "for" /\ UNCHANGED error
  /\ UNCHANGED <<samples_per_file, hashseed, ds, results, hash_file, exports,
                 uniques, visited, checked, kept, ds_filter, yielded,
                 file_number, index, fs>>

\* A range that includes its stop.
InRange_inclusive(n, stop, step) ==
  IF step > 0 THEN n * step <= stop ELSE n * step >= stop

\* Whether range(0, stop, step) holds its item number n (from 0).
InRange(n, stop, step) ==
  IF step > 0 THEN n * step < stop ELSE n * step > stop

\* The for statement takes the next item of enumerate(range(...)), or ends.
ForNext ==
  /\ pc = "for"
  /\ IF InRange(yielded, Len(ds_filter), samples_per_file)
       THEN /\ file_number' = yielded
            /\ index' = yielded * samples_per_file
            /\ yielded' = yielded + 1
            /\ pc' = "to_json"
       ELSE /\ pc' = "done"
            /\ UNCHANGED <<file_number, index, yielded>>
  /\ UNCHANGED <<error, samples_per_file, hashseed, ds, results, hash_file,
                 exports, uniques, visited, checked, kept, ds_filter, fs>>

\* ds_filter.select(...).to_json(file_path)
ToJson ==
  /\ pc = "to_json"
  /\ fs' = Put(fs, file_path(file_number), File(select, TRUE))
  /\ pc' = "gzip_open"
  /\ UNCHANGED <<error, samples_per_file, hashseed, ds, results, hash_file,
                 exports, uniques, visited, checked, kept, ds_filter, yielded,
                 file_number, index>>

\* to_json fails after it has written n lines.
ToJsonFail ==
  /\ pc = "to_json"
  /\ \E n \in 0..Len(select) :
       fs' = Put(fs, file_path(file_number), File(SubSeq(select, 1, n), FALSE))
  /\ Fail("IOError")
  /\ UNCHANGED <<samples_per_file, hashseed, ds, results, hash_file, exports,
                 uniques, visited, checked, kept, ds_filter, yielded,
                 file_number, index>>

\* compress_file(file_path), statement by statement.  frame: what none of
\* its statements changes.
compress_frame ==
  UNCHANGED <<samples_per_file, hashseed, ds, results, hash_file, exports,
              uniques, visited, checked, kept, ds_filter, yielded, file_number,
              index>>

\* open(file_path, "rb"); gzip.open(file_path + ".gz", "wb"): the gzip file
\* is created, or truncated, and holds no data yet.
GzipOpen ==
  /\ pc = "gzip_open"
  /\ fs' = Put(fs, gz_path(file_path(file_number)), File(<<>>, FALSE))
  /\ pc' = "copy"
  /\ UNCHANGED error
  /\ compress_frame

\* The gzip file cannot be created.
GzipOpenFail ==
  /\ pc = "gzip_open"
  /\ Fail("IOError")
  /\ UNCHANGED fs
  /\ compress_frame

\* shutil.copyfileobj(f_in, f_out)
CopyFileObj ==
  /\ pc = "copy"
  /\ fs' = Put(fs, gz_path(file_path(file_number)),
               File(fs[file_path(file_number)].data, FALSE))
  /\ pc' = "close"
  /\ UNCHANGED error
  /\ compress_frame

\* A copy whose failure also deletes the source (os.unlink in a finally).
CopyFileObjFail_unlinks ==
  /\ pc = "copy"
  /\ \E n \in 0..Len(fs[file_path(file_number)].data) :
       fs' = Remove(Put(fs, gz_path(file_path(file_number)),
                        File(SubSeq(fs[file_path(file_number)].data, 1, n), FALSE)),
                    file_path(file_number))
  /\ Fail("IOError")
  /\ compress_frame

\* The copy fails after n lines: the exception leaves both with blocks, which
\* close the files, and leaves compress_file before its os.unlink.
CopyFileObjFail ==
  /\ pc = "copy"
  /\ \E n \in 0..Len(fs[file_path(file_number)].data) :
       fs' = Put(fs, gz_path(file_path(file_number)),
                 File(SubSeq(fs[file_path(file_number)].data, 1, n), FALSE))
  /\ Fail("IOError")
  /\ compress_frame

\* The with blocks end: f_out is flushed, the gzip trailer written, the
\* files closed.
GzipClose ==
  /\ pc = "close"
  /\ fs' = Put(fs, gz_path(file_path(file_number)),
               File(fs[gz_path(file_path(file_number))].data, TRUE))
  /\ pc' = "unlink"
  /\ UNCHANGED error
  /\ compress_frame

\* The flush of the close fails: the exception leaves compress_file.
GzipCloseFail ==
  /\ pc = "close"
  /\ Fail("IOError")
  /\ UNCHANGED fs
  /\ compress_frame

\* os.unlink(file_path), then the next turn of the loop.
Unlink ==
  /\ pc = "unlink"
  /\ fs' = Remove(fs, file_path(file_number))
  /\ pc' = "for"
  /\ UNCHANGED error
  /\ compress_frame

\* ----------------------------------------------------------- specification

Next ==
  \/ \E w \in Workers : MapStep(w)
  \/ MapJoin
  \/ HashExport
  \/ Deduplicate
  \/ FilterStep
  \/ FilterEnd
  \/ SaveStart
  \/ ForNext
  \/ ToJson
  \/ ToJsonFail
  \/ GzipOpen
  \/ GzipOpenFail
  \/ CopyFileObj
  \/ CopyFileObjFail
  \/ GzipClose
  \/ GzipCloseFail
  \/ Unlink

Spec == Init /\ [][Next]_vars

\* ------------------------------------- filter on values at its thresholds

\* Attributes around the thresholds of filter.  Every combination is the
\* attributes of some content: line_mean <= line_max in each, and lines and
\* characters can be added to reach any of the means and fractions.
FilterHashes == {1, 2}
FilterLineMax == {999, 1000, 1001}
FilterLineMean == {[num |-> 99, den |-> 1], [num |-> 100, den |-> 1],
                   [num |-> 201, den |-> 2]}
FilterAlphaFrac == {[num |-> 1, den |-> 4], [num |-> 1, den |-> 5],
                    [num |-> 1, den |-> 1]}

FilterExamples ==
  [content : {<<"x">>}, hash : FilterHashes, line_mean : FilterLineMean,
   line_max : FilterLineMax, alpha_frac : FilterAlphaFrac,
   autogenerated : BOOLEAN]

\* The script right after `uniques = set(ds.unique("hash"))`, for a dataset
\* of one or two records with attributes around the thresholds.
InitFilter ==
  /\ pc = "filter"
  /\ error = "none"
  /\ samples_per_file = 1
  /\ hashseed \in {[w \in Workers |-> 0]}
  /\ ds \in [1..1 -> FilterExamples] \cup [1..2 -> FilterExamples]
  /\ results = [w \in Workers |-> <<>>]
  /\ hash_file = [k \in DOMAIN ds |-> remove_columns(ds[k])]
  /\ exports = 1
  /\ uniques = {ds[k].hash : k \in DOMAIN ds}
  /\ visited = 0
  /\ checked = <<>>
  /\ kept = <<>>
  /\ ds_filter = <<>>
  /\ yielded = 0
  /\ file_number = 0
  /\ index = 0
  /\ fs = [q \in {} |-> <<>>]

NextFilter ==
  \/ FilterStep
  \/ FilterEnd

SpecFilter == InitFilter /\ [][NextFilter]_vars

\* ------------------------------------------------------------------ claims

\* The filter pass has visited every record of a dataset that has records.
FilterPassDone == Len(ds) > 0 /\ Len(checked) = Len(ds)

\* The records of the dataset that carry hash h.
WithHash(h) == {k \in DOMAIN ds : ds[k].hash = h}

\* C1: once the filter pass has called check_uniques once on every record,
\* check_uniques has returned True for exactly one of the records that share
\* a hash (so for exactly one of N records of identical content and hash) and
\* False for the others, in whatever order the dataset holds them.
C1_ExactlyOneFirst ==
  FilterPassDone =>
    \A k \in DOMAIN ds :
      Cardinality({j \in WithHash(ds[k].hash) : checked[j]}) = 1

\* Three records of one content and one hash were visited: one True, two False.
C1_Witness ==
  /\ FilterPassDone
  /\ Len(ds) = 3
  /\ \A k \in DOMAIN ds : ds[k].content = ds[1].content /\ ds[k].hash = ds[1].hash
  /\ checked = <<TRUE, FALSE, FALSE>>

\* C2: a call of filter returns True exactly when the record's hash was in
\* uniques at the call, the record is not autogenerated, line_max <= 1000,
\* line_mean <= 100 and alpha_frac >= 0.25 (the three boundary values are
\* accepted); the call removes that one hash from uniques and changes nothing
\* else of the dataset or the hash set.
C2_FilterVerdict ==
  [][(pc = "filter" /\ visited' = visited + 1) =>
       LET e == ds[visited + 1]
       IN  /\ kept'[visited + 1] =
                (/\ e.hash \in uniques
                 /\ ~e.autogenerated
                 /\ e.line_max <= 1000
                 /\ e.line_mean.num <= 100 * e.line_mean.den
                 /\ 4 * e.alpha_frac.num >= e.alpha_frac.den)
           /\ uniques' = uniques \ {e.hash}
           /\ ds' = ds
           /\ SubSeq(kept', 1, visited) = kept
           /\ ds_filter' = IF kept'[visited + 1] THEN Append(ds_filter, e)
                                                ELSE ds_filter]_vars

\* A record with line_max = 1000, line_mean = 100 and alpha_frac = 0.25 was
\* accepted, and one with line_max = 1001 was rejected on its first visit.
C2_Witness ==
  /\ Len(kept) = 2
  /\ ds[1].line_max = 1000 /\ ds[1].line_mean = [num |-> 100, den |-> 1]
  /\ ds[1].alpha_frac = [num |-> 1, den |-> 4]
  /\ kept[1]
  /\ ds[2].line_max = 1001 /\ ds[2].hash # ds[1].hash
  /\ ~kept[2]
  /\ uniques = {}

\* The first record of the dataset that carries the hash of record k.
FirstWithHash(k) == CHOOSE j \in WithHash(ds[k].hash) :
                      \A m \in WithHash(ds[k].hash) : j <= m

\* C3: the first visit of a hash removes it from uniques whatever the verdict
\* of filter on that record, and no step of the pass puts a hash back, so each
\* hash is removed exactly once: no visited hash is in uniques.  When filter
\* rejects the first record of a hash, it rejects every later record of that
\* hash, and no record of that hash is in the filtered dataset.
C3_HashConsumedOnFirstVisit ==
  /\ [](pc = "filter" \/ FilterPassDone =>
          /\ \A k \in 1..visited : ds[k].hash \notin uniques
          /\ \A k \in 1..visited :
               ~kept[FirstWithHash(k)] =>
                 /\ ~kept[k]
                 /\ \A m \in DOMAIN ds_filter : ds_filter[m].hash # ds[k].hash)
  /\ [][(pc = "filter" /\ visited' = visited + 1) =>
          /\ uniques' = uniques \ {ds[visited + 1].hash}
          /\ (ds[visited + 1].hash \in uniques) = checked'[visited + 1]]_vars

\* The first record of a hash was rejected by a heuristic after check_uniques
\* returned True for it, and a later record of the same hash was rejected.
C3_Witness ==
  /\ FilterPassDone
  /\ \E j, k \in DOMAIN ds :
       /\ j < k
       /\ ds[j].hash = ds[k].hash
       /\ j = FirstWithHash(k)
       /\ checked[j] /\ ~kept[j] /\ ds[j].autogenerated
       /\ ~checked[k] /\ ~kept[k]
  /\ uniques = {}

\* The shards of output_dir: the numbers n whose compressed file exists, and
\* the records of shard n.
ShardNumbers == {n \in 0..Len(ds) : gz_path(file_path(n)) \in DOMAIN fs}
ShardRecords(n) == fs[gz_path(file_path(n))].data

\* The records of the shards numbered n and above, in increasing number.
RECURSIVE ShardsFrom(_)
ShardsFrom(n) ==
  IF \A m \in ShardNumbers : m < n THEN <<>>
  ELSE (IF n \in ShardNumbers THEN ShardRecords(n) ELSE <<>>) \o ShardsFrom(n + 1)

\* The records of ds that filter accepted, in dataset order.
RECURSIVE KeptFrom(_)
KeptFrom(k) ==
  IF k > Len(ds) THEN <<>>
  ELSE (IF kept[k] THEN <<ds[k]>> ELSE <<>>) \o KeptFrom(k + 1)

\* C4: when the run is done with a shard size N >= 1, the records of the
\* written shards, taken in increasing shard number and in their order inside
\* each shard, are exactly the filtered sequence, and the filtered sequence is
\* the accepted records in dataset order.
C4_ShardCompleteness ==
  (pc = "done" /\ samples_per_file >= 1) =>
    /\ ShardsFrom(0) = ds_filter
    /\ ds_filter = KeptFrom(1)

\* Three filtered records were written to two shards, of 2 records and of 1.
C4_Witness ==
  /\ pc = "done"
  /\ samples_per_file = 2
  /\ Len(ds_filter) = 3
  /\ ShardNumbers = {0, 1}
  /\ ShardsFrom(0) = ds_filter

\* The number of shards a run with T records and shard size N writes.
ShardCount(T, N) == (T + N - 1) \div N

\* C5: when the run is done with T filtered records and shard size N >= 1,
\* every shard but the last holds N records, the last holds T mod N records
\* when N does not divide T and N when it does; no shard is empty and none
\* holds more than N records.
C5_ShardSizes ==
  (pc = "done" /\ samples_per_file >= 1) =>
    LET T == Len(ds_filter)
        N == samples_per_file
    IN  /\ ShardNumbers = 0..(ShardCount(T, N) - 1)
        /\ \A n \in ShardNumbers :
             /\ Len(ShardRecords(n)) >= 1
             /\ Len(ShardRecords(n)) <= N
             /\ n < ShardCount(T, N) - 1 => Len(ShardRecords(n)) = N
             /\ n = ShardCount(T, N) - 1 =>
                  Len(ShardRecords(n)) = (IF T % N = 0 THEN N ELSE T % N)

\* A run with T = 3 and N = 2 ended with a full shard and a last shard of
\* 3 mod 2 = 1 record.
C5_Witness ==
  /\ pc = "done"
  /\ samples_per_file = 2
  /\ Len(ds_filter) = 3
  /\ Len(ShardRecords(0)) = 2
  /\ Len(ShardRecords(1)) = 1

\* The uncompressed paths of the shards the loop has started.
StartedPaths == {file_path(n) : n \in 0..(yielded - 1)}

\* C6: a step deletes an uncompressed shard file only when that file was
\* written to its end and its compressed copy holds all of its lines and is
\* closed with its trailer; a step in which the compression fails leaves the
\* uncompressed file as it was; so no incomplete compressed file stands
\* without its complete uncompressed source.
C6_DeleteAfterCompress ==
  /\ [][\A p \in StartedPaths :
          (p \in DOMAIN fs /\ p \notin DOMAIN fs') =>
            /\ fs[p].complete
            /\ gz_path(p) \in DOMAIN fs
            /\ fs[gz_path(p)].complete
            /\ fs[gz_path(p)].data = fs[p].data]_vars
  /\ [][(pc \in {"gzip_open", "copy", "close"} /\ pc' = "failed") =>
          /\ file_path(file_number) \in DOMAIN fs'
          /\ fs'[file_path(file_number)] = fs[file_path(file_number)]
          /\ fs'[file_path(file_number)].complete]_vars
  /\ [](\A p \in StartedPaths :
          (gz_path(p) \in DOMAIN fs /\ ~fs[gz_path(p)].complete) =>
            (p \in DOMAIN fs /\ fs[p].complete))

\* The first shard was compressed and its source deleted; the compression of
\* the second failed part-way, and its uncompressed file is still there.
C6_Witness ==
  /\ pc = "failed"
  /\ yielded = 2
  /\ file_path(0) \notin DOMAIN fs
  /\ gz_path(file_path(0)) \in DOMAIN fs
  /\ fs[gz_path(file_path(0))].complete
  /\ file_path(1) \in DOMAIN fs
  /\ fs[file_path(1)].complete
  /\ gz_path(file_path(1)) \in DOMAIN fs
  /\ ~fs[gz_path(file_path(1))].complete

\* C7: when the run has ended, normally or with a failed shard, every file of
\* the output directory is a finished compressed shard: no uncompressed file
\* is left (alone or beside its compressed form) and no compressed file is
\* incomplete.
C7_NoPartialOutput ==
  pc \in {"done", "failed"} =>
    \A n \in 0..Len(ds) :
      /\ file_path(n) \notin DOMAIN fs
      /\ gz_path(file_path(n)) \in DOMAIN fs => fs[gz_path(file_path(n))].complete

\* C8: the statistics of a record whose content has no line do not end in the
\* exception of max() on an empty sequence: the map stage either fails with a
\* DataError or gives the record line_max = 0.
C8_EmptyContentHandled ==
  /\ (pc = "failed" /\ exports = 0) => error = "DataError"
  /\ \A w \in Workers : \A k \in DOMAIN results[w] :
       splitlines(results[w][k].content) = <<>> => results[w][k].line_max = 0

\* The contents of the scenario of three records: "a\nb", "a\nb" and
\* "AUTO-GENERATED FILE\nx".
ScenarioContents ==
  << <<"a", "\n", "b">>,
     <<"a", "\n", "b">>,
     <<"A","U","T","O","-","G","E","N","E","R","A","T","E","D"," ",
       "F","I","L","E","\n","x">> >>

\* C9: the hash export is written once: not before every record has its
\* attributes, and before the hash set is built and before any record is
\* filtered; from then on it holds one entry per record of the dataset, in
\* order, with that record's hash, whatever filter later decides (3 entries
\* in the scenario in which one record of three survives).
C9_HashExportOnceBeforeFilter ==
  /\ [](/\ exports <= 1
        /\ pc \in {"map", "export"} => exports = 0 /\ hash_file = <<>>
        /\ pc \in {"uniques", "filter", "save", "for", "to_json", "gzip_open",
                   "copy", "close", "unlink", "done"} => exports = 1
        /\ exports = 1 =>
             /\ Len(hash_file) = Len(ds)
             /\ \A k \in DOMAIN ds :
                  /\ hash_file[k].hash = ds[k].hash
                  /\ "content" \notin DOMAIN hash_file[k])
  /\ [][exports' # exports =>
          /\ \A k \in DOMAIN ds : "hash" \in DOMAIN ds[k]
          /\ uniques = {} /\ uniques' = {}
          /\ visited = 0 /\ visited' = 0
          /\ ds_filter' = <<>>
          /\ ds' = ds]_vars
  /\ []((pc = "done" /\ [k \in DOMAIN ds |-> ds[k].content] = ScenarioContents) =>
          (Len(hash_file) = 3 /\ kept = <<TRUE, FALSE, FALSE>>))

\* The scenario has run to its end: three hash entries, one record kept.
C9_Witness ==
  /\ pc = "done"
  /\ [k \in DOMAIN ds |-> ds[k].content] = ScenarioContents
  /\ Len(hash_file) = 3
  /\ hash_file[1].hash = hash_file[2].hash
  /\ Len(ds_filter) = 1
  /\ exports = 1

\* C10: with samples_per_file <= 0 the run is aborted by a configuration
\* error before it processes anything: no worker has computed statistics, no
\* hash export is written, no record is filtered, no shard file exists, and
\* the run does not end normally.
C10_BadShardSizeRejectedFirst ==
  samples_per_file <= 0 =>
    /\ \A w \in Workers : results[w] = <<>>
    /\ exports = 0
    /\ visited = 0
    /\ DOMAIN fs = {}
    /\ pc # "done"

C12_MapJoinExact ==
  /\ [][(pc = "map" /\ pc' = "export") =>
          /\ Len(ds') = Len(ds)
          /\ \A k \in DOMAIN ds :
               /\ ds'[k].content = ds[k].content
               /\ \E w \in Workers :
                    ds'[k] = [content |-> ds[k].content]
                               @@ preprocess(hashseed[w], ds[k])]_vars
  /\ [][(exports' # exports \/ uniques' # uniques) =>
          /\ pc \notin {"map", "failed"}
          /\ \A w \in Workers : Len(results[w]) = ShardLen(w)
          /\ ConcatShards(results, 0) = ds]_vars
  /\ [](pc \in {"export", "uniques", "filter"} =>
          \A k \in DOMAIN ds :
            /\ ds[k].line_max = line_stats(ds[k]).line_max
            /\ ds[k].line_mean = line_stats(ds[k]).line_mean
            /\ ds[k].alpha_frac = alpha_stats(ds[k]).alpha_frac
            /\ ds[k].autogenerated = is_autogenerated(ds[k]).autogenerated)

\* Both workers have mapped their slices (two records and one), and the joined
\* dataset holds the three records in place, each with its own attributes.
C12_Witness ==
  /\ pc = "uniques"
  /\ Len(ds) = 3
  /\ ds[1].content = <<"a", "\n", "b">> /\ ds[1].line_max = 1
  /\ ds[2].content = <<"c", " ", "d">> /\ ds[2].line_max = 3
  /\ ds[3].content = <<"b">> /\ ds[3].alpha_frac = [num |-> 1, den |-> 1]
  /\ Len(hash_file) = 3

\* ------------------------------------- the statistics functions, one call

\* Most lines of filler the contents below put before their marker line.
MaxFillerLines == 6

\* str.upper() on one character.
upper(ch) ==
  IF ch \in Range(LowerCase)
    THEN UpperCase[CHOOSE k \in DOMAIN LowerCase : LowerCase[k] = ch]
    ELSE ch

\* A text in lower case, in upper case, and with its case alternating.
Casings(t) ==
  { t,
    [j \in DOMAIN t |-> upper(t[j])],
    [j \in DOMAIN t |-> IF j % 2 = 1 THEN upper(t[j]) ELSE t[j]] }

\* Marker lines that hold a keyword: each keyword in three casings, alone on
\* the line, and in lower case between other words.
KeywordLines ==
  UNION {Casings(keywords[k]) : k \in DOMAIN keywords}
    \cup {<<"x", " ">> \o keywords[k] \o <<" ", "x">> : k \in DOMAIN keywords}

\* Marker texts that hold none: "", "auto generated", "autogenerate",
\* "automatically-generated", "generated", and "automatically" and
\* "generated" on two lines.
OtherLines ==
  { <<>>,
    <<"a","u","t","o"," ","g","e","n","e","r","a","t","e","d">>,
    <<"a","u","t","o","g","e","n","e","r","a","t","e">>,
    <<"a","u","t","o","m","a","t","i","c","a","l","l","y","-",
      "g","e","n","e","r","a","t","e","d">>,
    <<"g","e","n","e","r","a","t","e","d">>,
    <<"a","u","t","o","m","a","t","i","c","a","l","l","y","\n",
      "g","e","n","e","r","a","t","e","d">> }

Tails == { <<>>, <<"\n", "y">> }

\* n lines "x", each with its line boundary.
Filler(n) == [j \in 1..(2 * n) |-> IF j % 2 = 1 THEN "x" ELSE "\n"]

\* The content with its marker text on line n + 1.
Build(n, marker, tail) == Filler(n) \o marker \o tail

StatsContents ==
  {Build(n, marker, tail) :
     n \in 0..MaxFillerLines, marker \in KeywordLines \cup OtherLines,
     tail \in Tails}

\* One record is loaded, and one of the statistics functions is about to be
\* called on it.
InitStats ==
  /\ pc = "call"
  /\ error = "none"
  /\ samples_per_file = 1
  /\ hashseed \in HashSeeds
  /\ ds \in {<<[content |-> c]>> : c \in StatsContents}
  /\ results = [w \in Workers |-> <<>>]
  /\ hash_file = <<>>
  /\ exports = 0
  /\ uniques = {}
  /\ visited = 0
  /\ checked = <<>>
  /\ kept = <<>>
  /\ ds_filter = <<>>
  /\ yielded = 0
  /\ file_number = 0
  /\ index = 0
  /\ fs = [q \in {} |-> <<>>]

\* Worker w calls function f on the record: the record with the returned
\* dict is its result, or the exception ends the call.
Returns(w, r) ==
  /\ IF Raised(r)
       THEN Fail(r.exc) /\ UNCHANGED results
       ELSE /\ results' = [results EXCEPT ![w] = <<ds[1] @@ r>>]
            /\ pc' = "returned"
            /\ UNCHANGED error
  /\ UNCHANGED <<samples_per_file, hashseed, ds, hash_file, exports, uniques,
                 visited, checked, kept, ds_filter, yielded, file_number, index,
                 fs>>

CallGetHash(w) == pc = "call" /\ Returns(w, get_hash(hashseed[w], ds[1]))
CallLineStats(w) == pc = "call" /\ Returns(w, line_stats(ds[1]))
CallAlphaStats(w) == pc = "call" /\ Returns(w, alpha_stats(ds[1]))
CallIsAutogenerated(w) == pc = "call" /\ Returns(w, is_autogenerated(ds[1]))
CallPreprocess(w) == pc = "call" /\ Returns(w, preprocess(hashseed[w], ds[1]))

NextStats ==
  \/ \E w \in Workers : CallGetHash(w)
  \/ \E w \in Workers : CallLineStats(w)
  \/ \E w \in Workers : CallAlphaStats(w)
  \/ \E w \in Workers : CallIsAutogenerated(w)
  \/ \E w \in Workers : CallPreprocess(w)

SpecStats == InitStats /\ [][NextStats]_vars

\* The results the workers hold.
Returned == UNION {Range(results[w]) : w \in Workers}

\* Equality of two characters but for their case.
SameLetter(a, b) ==
  \/ a = b
  \/ \E k \in DOMAIN UpperCase :
       {a, b} = {UpperCase[k], LowerCase[k]}

\* Text t holds text u, compared without regard to case.
HoldsIgnoringCase(t, u) ==
  \E k \in 0..(Len(t) - Len(u)) :
    \A j \in 1..Len(u) : SameLetter(t[k + j], u[j])

\* C13: is_autogenerated returns autogenerated = true exactly when one of the
\* first 5 lines of the content (of all lines when there are fewer) holds,
\* compared without regard to case, "auto-generated", "autogenerated" or
\* "automatically generated"; so a content whose only marker text stands on
\* line n + 1 is flagged exactly when that text holds a keyword and n + 1 <= 5.
C13_AutogeneratedFirstFiveLines ==
  \A r \in Returned :
    "autogenerated" \in DOMAIN r =>
      /\ r.autogenerated =
           (\E n \in 1..5 :
              /\ n <= Len(splitlines(r.content))
              /\ \E k \in DOMAIN keywords :
                   HoldsIgnoringCase(splitlines(r.content)[n], keywords[k]))
      /\ \A n \in 0..MaxFillerLines :
           \A marker \in KeywordLines \cup OtherLines : \A tail \in Tails :
             r.content = Build(n, marker, tail) =>
               r.autogenerated = (marker \in KeywordLines /\ n + 1 <= 5)

\* is_autogenerated has flagged a content of 6 lines whose line 5 is
\* "AUTO-GENERATED".
C13_Witness ==
  \E r \in Returned :
    /\ "autogenerated" \in DOMAIN r
    /\ r.content = Build(4, [j \in DOMAIN keywords[1] |-> upper(keywords[1][j])],
                         <<"\n", "y">>)
    /\ Len(splitlines(r.content)) = 6
    /\ r.autogenerated

\* C14: for every content, alpha_frac is a number of [0.0, 1.0]: the number
\* of alphanumeric characters of the content divided by the number of its
\* characters.  (A mean [num, den] with den = 0 is nan, which is no number of
\* the interval.)
C14_AlphaFracInUnitInterval ==
  \A r \in Returned :
    "alpha_frac" \in DOMAIN r =>
      /\ r.alpha_frac.den > 0
      /\ 0 <= r.alpha_frac.num
      /\ r.alpha_frac.num <= r.alpha_frac.den
      /\ r.alpha_frac.den = Len(r.content)
      /\ r.alpha_frac.num =
           Cardinality({j \in DOMAIN r.content :
                          r.content[j] \notin {" ", "-", "\n", "\r"}})

\* C15: a call of check_uniques on a record whose hash is in the set returns
\* True and removes that hash and nothing else; a call on a record whose hash
\* is not in the set returns False and leaves the set as it is.
C15_CheckUniquesFrame ==
  [][(pc = "filter" /\ visited' = visited + 1) =>
       LET h == ds[visited + 1].hash
       IN  IF h \in uniques
             THEN /\ checked'[visited + 1] = TRUE
                  /\ h \notin uniques'
                  /\ \A x \in uniques : x # h => x \in uniques'
                  /\ \A x \in uniques' : x \in uniques
             ELSE /\ checked'[visited + 1] = FALSE
                  /\ uniques' = uniques]_vars

\* check_uniques has returned True for the first record and removed its hash,
\* False for the second, of the same hash, and the hash of the third record,
\* not yet visited, is still in the set.
C15_Witness ==
  /\ pc = "filter"
  /\ Len(ds) = 3
  /\ visited = 2
  /\ checked = <<TRUE, FALSE>>
  /\ ds[1].hash = ds[2].hash
  /\ uniques = {ds[3].hash}

\* C16: in the filter pass, the record of a hash for which check_uniques
\* returns True is the earliest record of the dataset with that hash, and
\* check_uniques returns False for every later record of that hash.
C16_FirstOccurrenceWins ==
  (pc = "filter" \/ FilterPassDone) =>
    /\ Len(checked) = visited
    /\ \A k \in 1..Len(checked) : checked[k] = (k = FirstWithHash(k))
    /\ \A k \in 1..Len(kept) : kept[k] => k = FirstWithHash(k)

\* Of three records, the first and the third share a hash: the first was
\* taken as its first occurrence, the third rejected as a duplicate.
C16_Witness ==
  /\ FilterPassDone
  /\ Len(ds) = 3
  /\ ds[1].hash = ds[3].hash
  /\ ds[2].hash # ds[1].hash
  /\ checked = <<TRUE, TRUE, FALSE>>
  /\ kept[1] /\ ~kept[3]

\* The hashes of the records k of the dataset with k in S.
HashesOf(S) == {ds[k].hash : k \in S}

\* C18: during and after the filter pass, uniques is the set of the hashes of
\* all records less the hashes of the records visited so far; so the hash of
\* a record not yet visited, if no visited record has it, is in the set, and
\* after the pass over all records the set is empty.
C18_UniquesIsUnvisitedHashes ==
  (pc = "filter" \/ FilterPassDone) =>
    /\ uniques = HashesOf(DOMAIN ds) \ HashesOf(1..visited)
    /\ \A k \in (visited + 1)..Len(ds) :
         ds[k].hash \notin HashesOf(1..visited) => ds[k].hash \in uniques
    /\ visited = Len(ds) => uniques = {}

\* The pass has visited two of three records; the hash of the third is the
\* one hash left.  (The set is empty at its end in C16's witness run.)
C18_Witness ==
  /\ pc = "filter"
  /\ Len(ds) = 3
  /\ visited = 2
  /\ ds[1].hash # ds[2].hash
  /\ ds[3].hash \notin {ds[1].hash, ds[2].hash}
  /\ ~kept[2]
  /\ uniques = {ds[3].hash}


\* ---------------------------------------------------- the shard loop alone
\* The program from its "# Save data" comment on, for datasets long enough
\* for shard numbers of two digits.

MaxShardRecords == 11

\* The state of a filter pass over the records of d from record k on.
RECURSIVE FilterPass(_, _, _)
FilterPass(d, k, st) ==
  IF k > Len(d) THEN st
  ELSE LET r == filter(d[k], st.uniques)
       IN  FilterPass(d, k + 1,
             [uniques |-> r.uniques,
              checked |-> Append(st.checked, check_uniques(d[k], st.uniques).ret),
              kept |-> Append(st.kept, r.ret),
              ds_filter |-> IF r.ret THEN Append(st.ds_filter, d[k])
                                     ELSE st.ds_filter])

\* The record that ds.map(preprocess) makes of content c.
Mapped(c) == [content |-> c] @@ preprocess(0, [content |-> c])

\* A dataset of one autogenerated file and n files "1", "2", ..., mapped.
ShardDataset(n) ==
  <<Mapped(<<"A","U","T","O","-","G","E","N","E","R","A","T","E","D">>)>>
    \o [k \in 1..n |-> Mapped(Digits(k))]

InitShards ==
  /\ pc = "save"
  /\ error = "none"
  /\ samples_per_file \in (0 - 1)..MaxSamplesPerFile
  /\ hashseed = [w \in Workers |-> 0]
  /\ ds \in {ShardDataset(n) : n \in 0..MaxShardRecords}
  /\ results = [w \in Workers |-> <<>>]
  /\ hash_file = [k \in DOMAIN ds |-> remove_columns(ds[k])]
  /\ exports = 1
  /\ LET st == FilterPass(ds, 1, [uniques |-> {ds[k].hash : k \in DOMAIN ds},
                                  checked |-> <<>>, kept |-> <<>>,
                                  ds_filter |-> <<>>])
     IN  /\ uniques = st.uniques
         /\ checked = st.checked
         /\ kept = st.kept
         /\ ds_filter = st.ds_filter
  /\ visited = Len(ds)
  /\ yielded = 0
  /\ file_number = 0
  /\ index = 0
  /\ fs = [q \in {} |-> <<>>]

NextShards ==
  \/ SaveStart
  \/ ForNext
  \/ ToJson
  \/ ToJsonFail
  \/ GzipOpen
  \/ GzipOpenFail
  \/ CopyFileObj
  \/ CopyFileObjFail
  \/ GzipClose
  \/ GzipCloseFail
  \/ Unlink

SpecShards == InitShards /\ [][NextShards]_vars


\* The value of a decimal digit character, and of a sequence of them.
DigitValue(ch) == CHOOSE v \in 0..9 : DigitChar[v + 1] = ch
RECURSIVE DecimalValue(_)
DecimalValue(d) ==
  IF d = <<>> THEN 0
  ELSE 10 * DecimalValue(SubSeq(d, 1, Len(d) - 1)) + DigitValue(d[Len(d)])

\* p is a shard name: the directory and "file-", twelve decimal digits and
\* ".json", and for a compressed shard ".gz" after it.
IsShardName(p, compressed) ==
  /\ Len(p) = IF compressed THEN 15 ELSE 14
  /\ p[1] = "codeparrot-clean/file-"
  /\ \A k \in 2..13 : p[k] \in Range(DigitChar)
  /\ p[14] = ".json"
  /\ compressed => p[15] = ".gz"

\* The number that shard name p carries.
ShardIndex(p) == DecimalValue(SubSeq(p, 2, 13))

CompressedShards(f) == {p \in DOMAIN f : IsShardName(p, TRUE)}
CompressedIndices(f) == {ShardIndex(p) : p \in CompressedShards(f)}

\* C17: for T filtered records and shard size N >= 1, every file written is
\* named by a number of twelve zero-padded digits; the compressed shards are
\* created in the order 1, 2, 3, ..., each when all lower ones exist, none
\* twice under two names; when the run is done they are exactly the numbers
\* 1..ceil(T / N); and when T = 0 no file is ever written.
C17_ShardIndices ==
  /\ [](samples_per_file >= 1 =>
          /\ \A p \in DOMAIN fs : IsShardName(p, TRUE) \/ IsShardName(p, FALSE)
          /\ \E m \in 0..ShardCount(Len(ds_filter), samples_per_file) :
               CompressedIndices(fs) = 1..m
          /\ Cardinality(CompressedShards(fs)) = Cardinality(CompressedIndices(fs))
          /\ \A p \in DOMAIN fs :
               IsShardName(p, FALSE) =>
                 ShardIndex(p) = Cardinality(CompressedIndices(fs) \ {ShardIndex(p)}) + 1
          /\ pc = "done" =>
               /\ DOMAIN fs = CompressedShards(fs)
               /\ CompressedIndices(fs) =
                    1..ShardCount(Len(ds_filter), samples_per_file)
          /\ Len(ds_filter) = 0 => DOMAIN fs = {})
  /\ [][samples_per_file >= 1 =>
          \A p \in CompressedShards(fs') \ CompressedShards(fs) :
            /\ ShardIndex(p) = Cardinality(CompressedShards(fs)) + 1
            /\ \A q \in CompressedShards(fs) :
                 ShardIndex(q) < ShardIndex(p) /\ fs[q].complete]_vars

\* Eleven records at one record a shard: the run is done, and the last shard
\* carries the number 11 in two digits after ten zeros.
C17_Witness ==
  /\ pc = "done"
  /\ samples_per_file = 1
  /\ Len(ds_filter) = 11
  /\ Cardinality(DOMAIN fs) = 11
  /\ <<"codeparrot-clean/file-", "0", "0", "0", "0", "0", "0", "0", "0", "0",
       "0", "1", "1", ".json", ".gz">> \in DOMAIN fs

\* No record passed the filter: the loop body never ran and the run is done.
C17_WitnessEmpty ==
  /\ pc = "done"
  /\ samples_per_file >= 1
  /\ Len(ds) = 1
  /\ Len(ds_filter) = 0
  /\ yielded = 0

=============================================================================
